---- MODULE Spec2Model ----
(***************************************************************************)
(* envsync: Syncer.Sync(source, target) and its helpers mapEnv,            *)
(* appendNewEnv, prefix and writeEnv, in the two versions the repository   *)
(* holds: the flat writer (src/envsync.go) and the grouped writer          *)
(* (src/unnamed/part_000).                                                 *)
(*                                                                         *)
(* A file's content is a sequence of bytes, each byte a one-character      *)
(* string.  An env map (map[string]string) is a function from keys to      *)
(* values, keys and values being byte sequences.                           *)
(*                                                                         *)
(* Taken from the environment: every line is shorter than the scanner's    *)
(* token limit (bufio.MaxScanTokenSize); Truncate and rm, whose results    *)
(* the code drops, succeed; cp and WriteString may fail, and a failed      *)
(* WriteString writes nothing.  print (part_000) only writes to standard   *)
(* output and is left out.                                                 *)
(***************************************************************************)
EXTENDS Naturals, Sequences, FiniteSets, TLC

VARIABLES
    grouped,    \* TRUE: the build is src/unnamed/part_000, FALSE: src/envsync.go
    procs,      \* the concurrent callers of Sync
    source,     \* per caller: the file at its source path
    target,     \* the file at the target path (shared by all callers)
    orig,       \* the target file as it was before the first call
    bak,        \* the file at <target>.bak
    pc,         \* per caller: its position in Sync
    loc,        \* per caller: the local variables of its Sync call
    hist,       \* the calls that have returned, in order of return
    call        \* the running call of mapEnv or writeEnv on its own

vars == <<grouped, procs, source, orig, target, bak, pc, loc, hist, call>>

(***************************************************************************)
(* Bytes                                                                   *)
(***************************************************************************)
LF == "\n"
CR == "\r"

\* the byte value of each character the model uses (ASCII)
Ord ==
    [c \in {"\n", "\r", "#", " ", "1", "2", "=", "A", "B", "C", "X", "_", "c"} |->
        CASE c = "\n" -> 10
          [] c = "\r" -> 13
          [] c = " "  -> 32
          [] c = "#"  -> 35
          [] c = "1"  -> 49
          [] c = "2"  -> 50
          [] c = "="  -> 61
          [] c = "A"  -> 65
          [] c = "B"  -> 66
          [] c = "C"  -> 67
          [] c = "X"  -> 88
          [] c = "_"  -> 95
          [] c = "c"  -> 99]

separator == "="

\* the position of the first c in s, 0 when there is none
IndexByte(s, c) ==
    IF \E i \in 1..Len(s) : s[i] = c
    THEN CHOOSE i \in 1..Len(s) : s[i] = c /\ \A j \in 1..(i - 1) : s[j] # c
    ELSE 0

RECURSIVE Concat(_)
Concat(ss) == IF ss = <<>> THEN <<>> ELSE Head(ss) \o Concat(Tail(ss))

\* sort.Strings order: byte-wise lexicographic, a proper prefix first
RECURSIVE StringLess(_, _)
StringLess(a, b) ==
    IF b = <<>> THEN FALSE
    ELSE IF a = <<>> THEN TRUE
    ELSE IF Ord[Head(a)] # Ord[Head(b)] THEN Ord[Head(a)] < Ord[Head(b)]
    ELSE StringLess(Tail(a), Tail(b))

RECURSIVE SortStrings(_)
SortStrings(S) ==
    IF S = {} THEN <<>>
    ELSE LET m == CHOOSE k \in S : \A o \in S \ {k} : StringLess(k, o)
         IN  <<m>> \o SortStrings(S \ {m})

(***************************************************************************)
(* bufio.Scanner with bufio.ScanLines, as mapEnv uses it                   *)
(***************************************************************************)
dropCR(data) ==
    IF Len(data) > 0 /\ data[Len(data)] = CR
    THEN SubSeq(data, 1, Len(data) - 1)
    ELSE data

\* the tokens sc.Scan() yields, in order, for a file's content
RECURSIVE ScanLines(_)
ScanLines(data) ==
    IF data = <<>> THEN <<>>
    ELSE LET i == IndexByte(data, LF)
         IN  IF i > 0
             THEN <<dropCR(SubSeq(data, 1, i - 1))>>
                      \o ScanLines(SubSeq(data, i + 1, Len(data)))
             ELSE <<dropCR(data)>>

(***************************************************************************)
(* mapEnv                                                                  *)
(***************************************************************************)
HasPrefix(s, c) == Len(s) > 0 /\ s[1] = c

\* strings.SplitN(s, separator, 2)
SplitN2(s) ==
    LET i == IndexByte(s, separator)
    IN  IF i = 0 THEN <<s>>
        ELSE <<SubSeq(s, 1, i - 1), SubSeq(s, i + 1, Len(s))>>

\* res[k] = v on a map
MapSet(m, k, v) == [x \in DOMAIN m \cup {k} |-> IF x = k THEN v ELSE m[x]]

EmptyMap == <<>>

\* mapEnvLine without the check of the split: a line without separator is
\* passed over
mapEnvLineLenient(st, text) ==
    IF st.err # "" THEN st
    ELSE IF text = <<>> THEN st
    ELSE IF HasPrefix(text, "#") THEN st
    ELSE LET sp == SplitN2(text)
         IN  IF Len(sp) # 2
             THEN st
             ELSE [st EXCEPT !.res = MapSet(st.res, sp[1], sp[2])]

\* mapEnvLine keeping the first value of a key
mapEnvLineKeepFirst(st, text) ==
    IF st.err # "" THEN st
    ELSE IF text = <<>> THEN st
    ELSE IF HasPrefix(text, "#") THEN st
    ELSE LET sp == SplitN2(text)
         IN  IF Len(sp) # 2
             THEN [st EXCEPT !.err = "parse", !.line = text]
             ELSE IF sp[1] \in DOMAIN st.res THEN st
             ELSE [st EXCEPT !.res = MapSet(st.res, sp[1], sp[2])]

\* one iteration of mapEnv's scan loop on the token text; st.err # "" once
\* the function has returned its error
mapEnvLine(st, text) ==
    IF st.err # "" THEN st
    ELSE IF text = <<>> THEN st
    ELSE IF HasPrefix(text, "#") THEN st
    ELSE LET sp == SplitN2(text)
         IN  IF Len(sp) # 2
             THEN [st EXCEPT !.err = "parse", !.line = text]
             ELSE [st EXCEPT !.res = MapSet(st.res, sp[1], sp[2])]

RECURSIVE mapEnvLines(_, _)
mapEnvLines(st, lines) ==
    IF lines = <<>> THEN st
    ELSE mapEnvLines(mapEnvLine(st, Head(lines)), Tail(lines))

mapEnvStart == [res |-> EmptyMap, err |-> "", line |-> <<>>]

\* mapEnv(file): [res, err, line], err = "" for a nil error
mapEnv(data) == mapEnvLines(mapEnvStart, ScanLines(data))

(***************************************************************************)
(* appendNewEnv                                                            *)
(***************************************************************************)
\* appendNewEnv that adds nothing
appendNewEnvAddsNothing(sMap, tMap) == tMap

\* the merged map both versions return (part_000 returns the added subset
\* too, which only print reads)
appendNewEnv(sMap, tMap) ==
    [k \in DOMAIN tMap \cup DOMAIN sMap |->
        IF k \in DOMAIN tMap THEN tMap[k] ELSE sMap[k]]

(***************************************************************************)
(* writeEnv                                                                *)
(***************************************************************************)
\* strings.Split(key, "_")[0]
prefix(key) ==
    LET i == IndexByte(key, "_")
    IN  IF i = 0 THEN key ELSE SubSeq(key, 1, i - 1)

\* fmt.Sprintf("%s=%s\n", k, v)
valueFmt(k, v) == k \o <<"=">> \o v \o <<LF>>

\* fmt.Sprintf(groupComment, g): "# %s\n" for the first key, groupFmt after
groupFmt(first, g) ==
    (IF first THEN <<>> ELSE <<LF>>) \o <<"#", " ">> \o g \o <<LF>>

writeStart == [buff |-> <<>>, group |-> <<>>]

\* writeKeyGrouped without group = g: the group is never remembered
writeKeyGroupedNoUpdate(st, i, k, env) ==
    LET g == prefix(k)
        hdr == IF g # st.group THEN groupFmt(i = 1, g) ELSE <<>>
    IN  [buff |-> st.buff \o hdr \o valueFmt(k, env[k]),
         group |-> st.group]

\* one iteration of part_000's loop, for keys[i] = k
writeKeyGrouped(st, i, k, env) ==
    LET g == prefix(k)
        hdr == IF g # st.group THEN groupFmt(i = 1, g) ELSE <<>>
    IN  [buff |-> st.buff \o hdr \o valueFmt(k, env[k]),
         group |-> IF g # st.group THEN g ELSE st.group]

RECURSIVE writeGroupedFrom(_, _, _, _)
writeGroupedFrom(st, i, keys, env) ==
    IF i > Len(keys) THEN st
    ELSE writeGroupedFrom(writeKeyGrouped(st, i, keys[i], env), i + 1, keys, env)

\* the strings writeEnv hands to file.WriteString, in order: one per key in
\* envsync.go, the whole buffer at once in part_000
writeEnv(g, env) ==
    LET keys == SortStrings(DOMAIN env)
    IN  IF g
        THEN <<writeGroupedFrom(writeStart, 1, keys, env).buff>>
        ELSE [i \in 1..Len(keys) |-> valueFmt(keys[i], env[keys[i]])]

(***************************************************************************)
(* The files a run starts from                                             *)
(***************************************************************************)
MaxLines == 2       \* chunks per file
MaxRuns == 2        \* successive calls of Sync by the one caller of Spec

NoFile == [exists |-> FALSE, data |-> <<>>]
File(d) == [exists |-> TRUE, data |-> d]

\* pieces of source files: "A=1\n", "#c\n\nB_A==\r\n", "X" (no separator,
\* no final newline)
SrcChunks ==
    { <<"A", "=", "1", LF>>,
      <<"#", "c", LF, LF, "B", "_", "A", "=", "=", CR, LF>>,
      <<"X">> }

\* pieces of target files: "A=2\n", "# c\nB=1\n\nB" (ending in a line
\* without separator unless a piece follows), "A=1\r\r\n"
TgtChunks ==
    { <<"A", "=", "2", LF>>,
      <<"#", " ", "c", LF, "B", "=", "1", LF, LF, "B">>,
      <<"A", "=", "1", CR, CR, LF>> }

Contents(chunks, n) ==
    { Concat(s) : s \in UNION { [1..k -> chunks] : k \in 0..n } }

SrcFiles == { File(d) : d \in Contents(SrcChunks, MaxLines) } \cup {NoFile}
TgtFiles == { File(d) : d \in Contents(TgtChunks, MaxLines) } \cup {NoFile}

\* the files of the two concurrent callers: sources "A=1\n" and "B=1\n",
\* targets "" and "C=1\n"
ConcSources == { File(<<"A", "=", "1", LF>>), File(<<"B", "=", "1", LF>>) }
ConcTargets == { File(<<>>), File(<<"C", "=", "1", LF>>) }

NoCall == [op |-> "none"]

(***************************************************************************)
(* Sync                                                                    *)
(***************************************************************************)
\* the locals of a call at its entry (startedAt: how many calls had returned
\* by then); deferErr is the argument of the deferred
\* closure, evaluated when the defer statement runs, where err is still nil
\* ("" stands for nil)
EnterLocals(t, n) ==
    [startedAt |-> n, err |-> "", deferErr |-> "", sMap |-> EmptyMap, tMap |-> EmptyMap,
     out |-> <<>>, wi |-> 1, ret |-> "",
     before |-> t, backedUp |-> FALSE, cpFailed |-> FALSE,
     truncated |-> FALSE, written |-> 0, badLine |-> <<>>]

\* return e: the deferred closure is all that is left to run
Return(p, l, e) ==
    /\ loc' = [loc EXCEPT ![p] = [l EXCEPT !.err = e, !.ret = e]]
    /\ pc' = [pc EXCEPT ![p] = "cleanup"]

\* var err error; backupFile := ...; defer func(err error) {...}(err)
Enter(p) ==
    /\ pc[p] = "idle"
    /\ loc' = [loc EXCEPT ![p] = EnterLocals(target, Len(hist))]
    /\ pc' = [pc EXCEPT ![p] = "open_source"]
    /\ UNCHANGED <<grouped, procs, source, orig, target, bak, hist, call>>

\* sFile, err := os.Open(source)
OpenSource(p) ==
    /\ pc[p] = "open_source"
    /\ IF source[p].exists
       THEN /\ pc' = [pc EXCEPT ![p] = "open_target"]
            /\ loc' = loc
       ELSE Return(p, loc[p], "open_source")
    /\ UNCHANGED <<grouped, procs, source, orig, target, bak, hist, call>>

\* tFile, err := os.OpenFile(target, os.O_APPEND|os.O_RDWR, os.ModeAppend)
OpenTarget(p) ==
    /\ pc[p] = "open_target"
    /\ IF target.exists
       THEN /\ pc' = [pc EXCEPT ![p] = "parse_source"]
            /\ loc' = loc
       ELSE Return(p, loc[p], "open_target")
    /\ UNCHANGED <<grouped, procs, source, orig, target, bak, hist, call>>

\* sMap, err := s.mapEnv(sFile)
ParseSource(p) ==
    /\ pc[p] = "parse_source"
    /\ LET r == mapEnv(source[p].data)
           l == [loc[p] EXCEPT !.sMap = r.res, !.badLine = r.line]
       IN  IF r.err = ""
           THEN /\ loc' = [loc EXCEPT ![p] = l]
                /\ pc' = [pc EXCEPT ![p] = "parse_target"]
           ELSE Return(p, l, r.err)
    /\ UNCHANGED <<grouped, procs, source, orig, target, bak, hist, call>>

\* tMap, err := s.mapEnv(tFile)
ParseTarget(p) ==
    /\ pc[p] = "parse_target"
    /\ LET r == mapEnv(target.data)
           l == [loc[p] EXCEPT !.tMap = r.res, !.badLine = r.line]
       IN  IF r.err = ""
           THEN /\ loc' = [loc EXCEPT ![p] = l]
                /\ pc' = [pc EXCEPT ![p] = "backup"]
           ELSE Return(p, l, r.err)
    /\ UNCHANGED <<grouped, procs, source, orig, target, bak, hist, call>>

\* whether Sync returns when cp fails: envsync.go checks the error of
\* exec.Command("cp", "-f", target, backupFile).Run(), part_000 drops it
backupAborts(g, ok) == ~g /\ ~ok

\* exec.Command("cp", "-f", target, backupFile).Run(), which may fail
Backup(p) ==
    /\ pc[p] = "backup"
    /\ \E ok \in BOOLEAN :
         /\ bak' = IF ok THEN target ELSE bak
         /\ LET l == [loc[p] EXCEPT !.backedUp = ok, !.cpFailed = ~ok]
            IN  IF backupAborts(grouped, ok)
                THEN Return(p, l, "backup")
                ELSE /\ loc' = [loc EXCEPT ![p] = l]
                     /\ pc' = [pc EXCEPT ![p] = "merge"]
    /\ UNCHANGED <<grouped, procs, source, orig, target, hist, call>>

\* addedEnv := s.appendNewEnv(sMap, tMap), which updates tMap in place
\* (part_000 also prints the added keys); writeEnv's sorted output is
\* prepared here, its WriteString calls are the Write steps
Merge(p) ==
    /\ pc[p] = "merge"
    /\ LET env == appendNewEnv(loc[p].sMap, loc[p].tMap)
       IN  loc' = [loc EXCEPT ![p] = [loc[p] EXCEPT !.tMap = env,
                                      !.out = writeEnv(grouped, env)]]
    /\ pc' = [pc EXCEPT ![p] = "truncate"]
    /\ UNCHANGED <<grouped, procs, source, orig, target, bak, hist, call>>

\* tFile.Truncate(0); tFile.Seek(0, 0)
Truncate(p) ==
    /\ pc[p] = "truncate"
    /\ target' = [target EXCEPT !.data = <<>>]
    /\ loc' = [loc EXCEPT ![p] = [loc[p] EXCEPT !.truncated = TRUE]]
    /\ pc' = [pc EXCEPT ![p] = "write"]
    /\ UNCHANGED <<grouped, procs, source, orig, bak, hist, call>>

\* err = s.writeEnv(tFile, ...); return errors.Wrap(err, ...): the next
\* file.WriteString, which appends at the end of the file (O_APPEND) and
\* may fail, or the return of nil after the last one
Write(p) ==
    /\ pc[p] = "write"
    /\ IF loc[p].wi > Len(loc[p].out)
       THEN /\ Return(p, loc[p], "")
            /\ target' = target
       ELSE \E ok \in BOOLEAN :
              IF ok
              THEN /\ target' = [target EXCEPT
                                   !.data = target.data \o loc[p].out[loc[p].wi]]
                   /\ loc' = [loc EXCEPT ![p] = [loc[p] EXCEPT
                                   !.wi = loc[p].wi + 1,
                                   !.written = loc[p].written + 1]]
                   /\ pc' = pc
              ELSE /\ Return(p, loc[p], "write")
                   /\ target' = target
    /\ UNCHANGED <<grouped, procs, source, orig, bak, hist, call>>

\* cleanupFiles removing the backup only after an error
cleanupFilesKeepBackup(err, t, b) ==
    [target |-> IF err # "" /\ b.exists THEN b ELSE t,
     bak |-> IF err # "" THEN NoFile ELSE b]

\* the deferred closure: if err != nil { cp backupFile target }; rm backupFile.
\* err is the closure's parameter; cp of a missing backup changes nothing
cleanupFiles(err, t, b) ==
    [target |-> IF err # "" /\ b.exists THEN b ELSE t,
     bak |-> NoFile]

Cleanup(p) ==
    /\ pc[p] = "cleanup"
    /\ LET f == cleanupFiles(loc[p].deferErr, target, bak)
       IN  /\ target' = f.target
           /\ bak' = f.bak
           /\ hist' = Append(hist,
                  [proc |-> p, startedAt |-> loc[p].startedAt, ret |-> loc[p].ret, source |-> source[p],
                   before |-> loc[p].before, after |-> f.target,
                   bakLeft |-> f.bak.exists, backedUp |-> loc[p].backedUp,
                   cpFailed |-> loc[p].cpFailed, truncated |-> loc[p].truncated,
                   written |-> loc[p].written, badLine |-> loc[p].badLine])
    /\ pc' = [pc EXCEPT ![p] = "done"]
    /\ UNCHANGED <<grouped, procs, source, orig, loc, call>>

\* the caller runs Sync(source, target) again
Again(p) ==
    /\ pc[p] = "done"
    /\ Len(hist) < MaxRuns
    /\ pc' = [pc EXCEPT ![p] = "idle"]
    /\ UNCHANGED <<grouped, procs, source, orig, target, bak, loc, hist, call>>

Init ==
    /\ grouped \in BOOLEAN
    /\ procs = {1}
    /\ source \in [procs -> SrcFiles]
    /\ target \in TgtFiles
    /\ orig = target
    /\ bak = NoFile
    /\ pc = [p \in procs |-> "idle"]
    /\ loc = [p \in procs |-> EnterLocals(NoFile, 0)]
    /\ hist = <<>>
    /\ call = NoCall

Next ==
    \/ \E p \in procs : Enter(p)
    \/ \E p \in procs : OpenSource(p)
    \/ \E p \in procs : OpenTarget(p)
    \/ \E p \in procs : ParseSource(p)
    \/ \E p \in procs : ParseTarget(p)
    \/ \E p \in procs : Backup(p)
    \/ \E p \in procs : Merge(p)
    \/ \E p \in procs : Truncate(p)
    \/ \E p \in procs : Write(p)
    \/ \E p \in procs : Cleanup(p)
    \/ \E p \in procs : Again(p)

Spec == Init /\ [][Next]_vars

\* two callers on the same target, each calling Sync once
InitConc ==
    /\ grouped \in BOOLEAN
    /\ procs = {1, 2}
    /\ source \in [procs -> ConcSources]
    /\ target \in ConcTargets
    /\ orig = target
    /\ bak = NoFile
    /\ pc = [p \in procs |-> "idle"]
    /\ loc = [p \in procs |-> EnterLocals(NoFile, 0)]
    /\ hist = <<>>
    /\ call = NoCall

NextConc ==
    \/ \E p \in procs : Enter(p)
    \/ \E p \in procs : OpenSource(p)
    \/ \E p \in procs : OpenTarget(p)
    \/ \E p \in procs : ParseSource(p)
    \/ \E p \in procs : ParseTarget(p)
    \/ \E p \in procs : Backup(p)
    \/ \E p \in procs : Merge(p)
    \/ \E p \in procs : Truncate(p)
    \/ \E p \in procs : Write(p)
    \/ \E p \in procs : Cleanup(p)

SpecConc == InitConc /\ [][NextConc]_vars

(***************************************************************************)
(* mapEnv on its own: the scan loop, one token per step                    *)
(***************************************************************************)
MaxParseLines == 3  \* tokens per parsed input

\* tokens: "", "#c", "#A=1", "A=1", "A=2", "A==1", "=1", "B=", "A_B=2=", "A"
ParseTokens ==
    { <<>>,
      <<"#", "c">>,
      <<"#", "A", "=", "1">>,
      <<"A", "=", "1">>,
      <<"A", "=", "2">>,
      <<"A", "=", "=", "1">>,
      <<"=", "1">>,
      <<"B", "=">>,
      <<"A", "_", "B", "=", "2", "=">>,
      <<"A">> }

NoSync ==
    /\ procs = {}
    /\ source = <<>>
    /\ target = NoFile
    /\ orig = NoFile
    /\ bak = NoFile
    /\ pc = <<>>
    /\ loc = <<>>
    /\ hist = <<>>

InitParse ==
    /\ grouped \in BOOLEAN
    /\ NoSync
    /\ \E n \in 0..MaxParseLines : \E ls \in [1..n -> ParseTokens] :
         call = [op |-> "mapEnv", lines |-> ls, i |-> 1, st |-> mapEnvStart,
                 done |-> FALSE]

\* for sc.Scan() { ... }: the body for the next token
ScanStep ==
    /\ call.op = "mapEnv"
    /\ ~call.done
    /\ call.i <= Len(call.lines)
    /\ call.st.err = ""
    /\ call' = [call EXCEPT !.st = mapEnvLine(call.st, call.lines[call.i]),
                            !.i = call.i + 1]
    /\ UNCHANGED <<grouped, procs, source, orig, target, bak, pc, loc, hist>>

\* return res, err
ParseReturn ==
    /\ call.op = "mapEnv"
    /\ ~call.done
    /\ call.i > Len(call.lines) \/ call.st.err # ""
    /\ call' = [call EXCEPT !.done = TRUE]
    /\ UNCHANGED <<grouped, procs, source, orig, target, bak, pc, loc, hist>>

NextParse == ScanStep \/ ParseReturn

SpecParse == InitParse /\ [][NextParse]_vars

(***************************************************************************)
(* writeEnv on its own: sort, then one key per step                        *)
(***************************************************************************)
MaxKeys == 3        \* keys per written map

\* keys "", "A", "AB", "A_B", "B_A", "_A"
WriteKeys ==
    { <<>>, <<"A">>, <<"A", "B">>, <<"A", "_", "B">>, <<"B", "_", "A">>,
      <<"_", "A">> }

WriteVals == { <<"1">>, <<"2", "=">> }

WriteEnvs ==
    UNION { [K -> WriteVals] :
              K \in { S \in SUBSET WriteKeys : Cardinality(S) <= MaxKeys } }

InitWrite ==
    /\ grouped \in BOOLEAN
    /\ NoSync
    /\ \E env \in WriteEnvs :
         call = [op |-> "writeEnv", env |-> env, keys |-> <<>>, i |-> 0,
                 st |-> writeStart, out |-> <<>>, done |-> FALSE]

\* keys := ...; sort.Strings(keys)
SortKeys ==
    /\ call.op = "writeEnv"
    /\ call.i = 0
    /\ call' = [call EXCEPT !.keys = SortStrings(DOMAIN call.env), !.i = 1]
    /\ UNCHANGED <<grouped, procs, source, orig, target, bak, pc, loc, hist>>

\* for i, k := range keys { ... }: the body for keys[i]; envsync.go writes the
\* line to the file, part_000 adds header and line to buff
WriteKey ==
    /\ call.op = "writeEnv"
    /\ call.i \in 1..Len(call.keys)
    /\ LET k == call.keys[call.i]
       IN  call' =
             IF grouped
             THEN [call EXCEPT !.st = writeKeyGrouped(call.st, call.i, k, call.env),
                               !.i = call.i + 1]
             ELSE [call EXCEPT !.out = Append(call.out, valueFmt(k, call.env[k])),
                               !.i = call.i + 1]
    /\ UNCHANGED <<grouped, procs, source, orig, target, bak, pc, loc, hist>>

\* after the loop: part_000 writes buff to the file; return nil
WriteReturn ==
    /\ call.op = "writeEnv"
    /\ ~call.done
    /\ call.i = Len(call.keys) + 1
    /\ call' = [call EXCEPT !.done = TRUE,
                            !.out = IF grouped THEN <<call.st.buff>> ELSE call.out]
    /\ UNCHANGED <<grouped, procs, source, orig, target, bak, pc, loc, hist>>

NextWrite == SortKeys \/ WriteKey \/ WriteReturn

SpecWrite == InitWrite /\ [][NextWrite]_vars

(***************************************************************************)
(* Properties of Sync with one caller (Spec)                               *)
(***************************************************************************)
Range(f) == { f[x] : x \in DOMAIN f }

Returned == { hist[i] : i \in 1..Len(hist) }

\* the mapping the invariant of the data model asks for: the target's own
\* entries, and the source's entries for the keys the target lacks
MergedMapping(sMap, tMap, m) ==
    /\ DOMAIN m = DOMAIN sMap \cup DOMAIN tMap
    /\ \A k \in DOMAIN tMap : m[k] = tMap[k]
    /\ \A k \in DOMAIN sMap \ DOMAIN tMap : m[k] = sMap[k]

\* C1: when source and target both parse and Sync returns success, parsing
\* the target afterwards gives the original target mapping plus the source's
\* entries for the keys the target lacked; no target value changes.
C1_MergedMapping ==
    \A h \in Returned :
        LET sm == mapEnv(h.source.data)
            tm == mapEnv(h.before.data)
            am == mapEnv(h.after.data)
        IN  (h.ret = "" /\ sm.err = "" /\ tm.err = "")
                => /\ am.err = ""
                   /\ MergedMapping(sm.res, tm.res, am.res)

\* C2: when the backup has been taken and a write to the truncated target is
\* rejected, Sync returns an error and the target's content is what it was
\* before the call.
C2_Rollback ==
    \A h \in Returned :
        (h.backedUp /\ h.truncated /\ h.ret = "write")
            => h.after = h.before

\* a token that is not empty, does not start with '#' and holds no '='
BadLine(text) ==
    /\ text # <<>>
    /\ text[1] # "#"
    /\ \A i \in 1..Len(text) : text[i] # "="

HasBadLine(f) == f.exists /\ \E i \in DOMAIN ScanLines(f.data) : BadLine(ScanLines(f.data)[i])

C4_Idempotence ==
    \A i \in 1..(Len(hist) - 1) :
        (hist[i].ret = "" /\ hist[i + 1].ret = "")
            => hist[i + 1].after = hist[i].after

\* C5: whenever a call returns, on every path, no file is left at
\* <target>.bak; the backup exists only from the backup step to the end of
\* the same call.
C5_NoBackupLeft ==
    /\ \A h \in Returned : ~h.bakLeft
    /\ \A p \in procs :
         bak.exists => /\ pc[p] \in {"merge", "truncate", "write", "cleanup"}
                       /\ loc[p].backedUp

\* a call whose backup was taken returned after a failed write and left no
\* backup
C5_Witness ==
    /\ \E h \in Returned : h.backedUp /\ h.ret = "write" /\ ~h.bakLeft
    /\ ~bak.exists

\* C6: the target is truncated or written only after its bytes were copied
\* to the backup, and a failed copy makes Sync return an error with the
\* target neither truncated nor written.
C6_BackupBeforeMutation ==
    \A h \in Returned :
        /\ (h.truncated \/ h.written > 0) => (h.backedUp \/ h.cpFailed)
        /\ h.cpFailed => /\ h.ret # ""
                         /\ ~h.truncated
                         /\ h.written = 0
                         /\ h.after = h.before

(***************************************************************************)
(* Properties of mapEnv (SpecParse)                                        *)
(***************************************************************************)
Skipped(text) == text = <<>> \/ text[1] = "#"

WellFormed(lines) ==
    \A i \in DOMAIN lines : Skipped(lines[i]) \/ "=" \in Range(lines[i])

\* the position of the first '=' of an entry line, its key and its value
FirstSep(text) ==
    CHOOSE j \in 1..Len(text) :
        text[j] = "=" /\ \A i \in 1..(j - 1) : text[i] # "="

KeyOf(text) == SubSeq(text, 1, FirstSep(text) - 1)

ValOf(text) == SubSeq(text, FirstSep(text) + 1, Len(text))

\* m holds exactly the keys of the entry lines, each with the value of the
\* last entry line that has the key
ParsedMapping(lines, m) ==
    LET E == { i \in DOMAIN lines : ~Skipped(lines[i]) }
    IN  /\ DOMAIN m = { KeyOf(lines[i]) : i \in E }
        /\ \A k \in DOMAIN m :
              \E i \in E : /\ KeyOf(lines[i]) = k
                           /\ \A j \in E : KeyOf(lines[j]) = k => j <= i
                           /\ m[k] = ValOf(lines[i])

GroupLabel(k) ==
    IF \E i \in 1..Len(k) : k[i] = "_"
    THEN SubSeq(k, 1, (CHOOSE i \in 1..Len(k) :
                          k[i] = "_" /\ \A j \in 1..(i - 1) : k[j] # "_") - 1)
    ELSE k

Ascending(ks) == \A i, j \in DOMAIN ks : i < j => StringLess(ks[i], ks[j])

\* whether the writer owes a header before ks[i]: the first key, and every
\* key whose label differs from the previous key's
HeaderDue(ks, i) == i = 1 \/ GroupLabel(ks[i]) # GroupLabel(ks[i - 1])

\* what the writer owes for ks[i]: in the grouped variant a header where one
\* is due, after a blank line unless it is the first, then the key's line
ExpectedBlock(g, ks, i, env) ==
    (IF g /\ HeaderDue(ks, i)
     THEN (IF i = 1 THEN <<>> ELSE <<LF>>) \o <<"#", " ">> \o GroupLabel(ks[i]) \o <<LF>>
     ELSE <<>>)
    \o ks[i] \o <<"=">> \o env[ks[i]] \o <<LF>>

WriteDone == call.op = "writeEnv" /\ call.done

\* C8: writeEnv emits one line key=value per key in ascending byte order;
\* the grouped variant adds, before the first key and before every key whose
\* label differs from the previous key's, a header "# <label>", after a blank
\* line for every header but the first.
C8_WriterOutput ==
    WriteDone =>
        /\ Len(call.keys) = Cardinality(DOMAIN call.env)
        /\ Range(call.keys) = DOMAIN call.env
        /\ Ascending(call.keys)
        /\ Concat(call.out) =
             Concat([i \in DOMAIN call.keys |->
                        ExpectedBlock(grouped, call.keys, i, call.env)])

\* the lines of the written text
OutLines == ScanLines(Concat(call.out))

IsHeader(l) == Len(l) >= 2 /\ l[1] = "#" /\ l[2] = " "

IsKeyLine(l) == l # <<>> /\ ~IsHeader(l)

\* the labels of the header lines, in order of writing
HeaderLabels ==
    LET hs == SelectSeq(OutLines, IsHeader)
    IN  [i \in DOMAIN hs |-> SubSeq(hs[i], 3, Len(hs[i]))]

\* C10 as claimed: the header of a group label occurs at most once in the
\* output of the grouped writeEnv.
C10_HeaderOnce ==
    (WriteDone /\ grouped) =>
        \A i, j \in DOMAIN HeaderLabels : i < j => HeaderLabels[i] # HeaderLabels[j]

\* the runs of the sorted keys: the places where the label changes, the first
\* key counting when its label is not empty
RunStarts(ks) ==
    { i \in DOMAIN ks : IF i = 1 THEN GroupLabel(ks[1]) # <<>>
                        ELSE GroupLabel(ks[i]) # GroupLabel(ks[i - 1]) }

\* C10 as amended: the grouped writeEnv writes one header per run of
\* consecutive sorted keys sharing a label (none for a leading run with the
\* empty label): successive headers differ, every key line stands under the
\* header of its own label, and there are as many headers as runs.
C10_HeaderPerRun ==
    (WriteDone /\ grouped) =>
        /\ Len(HeaderLabels) = Cardinality(RunStarts(call.keys))
        /\ \A i \in 1..(Len(HeaderLabels) - 1) : HeaderLabels[i] # HeaderLabels[i + 1]
        /\ \A n \in DOMAIN OutLines :
              IsKeyLine(OutLines[n]) =>
                 LET above == { m \in 1..(n - 1) : IsHeader(OutLines[m]) }
                     label == GroupLabel(KeyOf(OutLines[n]))
                 IN  IF above = {} THEN label = <<>>
                     ELSE \E m \in above :
                            /\ \A o \in above : o <= m
                            /\ SubSeq(OutLines[m], 3, Len(OutLines[m])) = label

\* a grouped write of three keys in two runs, the first run of two keys under
\* one header
C10_Witness ==
    /\ WriteDone
    /\ grouped
    /\ Len(call.keys) = 3
    /\ GroupLabel(call.keys[1]) # <<>>
    /\ GroupLabel(call.keys[1]) = GroupLabel(call.keys[2])
    /\ GroupLabel(call.keys[2]) # GroupLabel(call.keys[3])
    /\ HeaderLabels = <<GroupLabel(call.keys[1]), GroupLabel(call.keys[3])>>

(***************************************************************************)
(* Properties of two concurrent callers (SpecConc)                         *)
(***************************************************************************)
\* the entry lines of a file's content
EntryLines(data) == SelectSeq(ScanLines(data), LAMBDA l : ~Skipped(l))

BothSucceeded ==
    /\ Len(hist) = 2
    /\ hist[1].ret = ""
    /\ hist[2].ret = ""

\* the content one call leaves on target content t with source content s
SyncData(t, s) ==
    Concat(writeEnv(grouped, appendNewEnv(mapEnv(s).res, mapEnv(t).res)))

\* C9, the serial half: when the second call starts after the first has
\* returned and both succeed, the target ends with the merge of the original
\* target, the first source and the second source, one line per key.
C9_SerialOutcome ==
    (BothSucceeded /\ hist[2].startedAt = 1) =>
        LET t0 == mapEnv(orig.data).res
            s1 == mapEnv(hist[1].source.data).res
            s2 == mapEnv(hist[2].source.data).res
            m1 == mapEnv(hist[1].after.data).res
            m2 == mapEnv(target.data).res
        IN  /\ MergedMapping(s1, t0, m1)
            /\ MergedMapping(s2, m1, m2)
            /\ Len(EntryLines(target.data)) = Cardinality(DOMAIN m2)

\* C9, the racing half: two overlapping calls both returned success and the
\* target holds neither serial result: a key of the union is missing or a
\* key's line is written twice
C9_Witness ==
    /\ BothSucceeded
    /\ hist[2].startedAt = 0
    /\ \A p \in procs : pc[p] = "done"
    /\ target.data # SyncData(SyncData(orig.data, source[1].data), source[2].data)
    /\ target.data # SyncData(SyncData(orig.data, source[2].data), source[1].data)
    /\ LET m == mapEnv(target.data).res
       IN  \/ DOMAIN m # DOMAIN mapEnv(orig.data).res
                           \cup DOMAIN mapEnv(source[1].data).res
                           \cup DOMAIN mapEnv(source[2].data).res
           \/ Len(EntryLines(target.data)) > Cardinality(DOMAIN m)

====
